---- MODULE Spec2Model ----
(***************************************************************************)
(* mqtt-logger: model of main() in mqtt-logger/src/main.rs.                *)
(*                                                                         *)
(* Two threads: the main thread (start-up, the capture loop over           *)
(* notifications.iter(), the final flush and the drop of the zstd          *)
(* AutoFinishEncoder at scope exit) and the Ctrl-C handler thread, which   *)
(* only stores false into the shared AtomicBool `running`.                 *)
(* The broker, the file system, the result of serde_json::to_string and    *)
(* the success of every fallible call are inputs chosen by \E.             *)
(***************************************************************************)
EXTENDS Integers, Sequences, FiniteSets, TLC

\* ---------------------------------------------------------------- bounds
MaxEvents == 3        \* events the Connection iterator yields in one run
MaxLineLen == 2       \* largest serialized.len() of a message
MaxSignals == 2       \* Ctrl-C deliveries in one run

\* ------------------------------------------------------------- constants
NewlineEstimate == 2  \* main.rs:140  "+ 2.; // 2 = newline"
NewlineWritten == 1   \* main.rs:147  writeln! ends the line with "\n"
BytesPerMB == 1048576 \* main.rs:145  bytes_written / 1024. / 1024.

MsgIds == {"A", "B"}

\* Output paths as dot-separated components (Opt.output, main.rs:36).
OutputArgs == {<<"out">>, <<"out", "log">>}

\* PathBuf::set_extension("json.zst"), main.rs:59: the text after the last
\* dot of the file name is replaced; a name without a dot gets it appended.
set_extension(p) ==
    IF Len(p) = 1 THEN p \o <<"json", "zst">>
    ELSE SubSeq(p, 1, Len(p) - 1) \o <<"json", "zst">>

Paths == {set_extension(p) : p \in OutputArgs}

\* serde_json::to_string(&msg), main.rs:138: Ok(serialized) or Err.
SerResults ==
    {[ok |-> TRUE, len |-> n] : n \in 1..MaxLineLen} \cup {[ok |-> FALSE, len |-> 0]}

\* Items of notifications.iter(), main.rs:117 and the match at 125-155.
PublishEvents == {[kind |-> "Publish", id |-> i, ser |-> s] : i \in MsgIds, s \in SerResults}
DisconnectEvent == [kind |-> "Disconnect"]
OtherEvent == [kind |-> "Other"]
ErrEvent == [kind |-> "Err"]
NoEvent == [kind |-> "None"]
Events == PublishEvents \cup {DisconnectEvent, OtherEvent, ErrEvent}

VARIABLES
    pc,             \* position of the main thread
    output,         \* Opt.output, then the normalized path
    fs,             \* file system: path -> "absent" | "prior" | "capture"
    brokerUp,       \* whether the broker at server:port is reachable
    handlerSet,     \* ctrlc::set_handler has installed the handler
    running,        \* the AtomicBool `running`
    signals,        \* Ctrl-C deliveries so far
    sinkState,      \* log_file: "none" | "open" | "finished"
    sink,           \* what has been handed to log_file, record by record
    finished,       \* times the encoder has been finished (dropped)
    flushes,        \* calls of log_file.flush()
    subscribes,     \* calls of mqtt_client.subscribe("#", ..)
    cur,            \* `notification` of the current iteration
    hist,           \* every item the iterator has yielded, in order
    observedAt,     \* Len(hist) when the loop read running = false, else -1
    count,          \* `count`
    bytes_written,  \* `bytes_written`
    pbMsg,          \* last message given to pb.set_message
    pbUpdates,      \* calls of pb.set_message inside the loop
    pbFinished,     \* pb.finish() has been called
    cause,          \* why control left the normal path
    status,         \* "live" | "ok" | "error" | "panic"
    flagReads,      \* calls of running.load(..)
    logged,         \* levels of the log macros called so far
    payload,        \* msg.payload of the message being built
    msg_b64         \* MqttMessage.msg_b64 built from it

vars == <<pc, output, fs, brokerUp, handlerSet, running, signals, sinkState, sink,
          finished, flushes, subscribes, cur, hist, observedAt, count,
          bytes_written, pbMsg, pbUpdates, pbFinished, cause, status,
          flagReads, logged, payload, msg_b64>>

env == <<output, fs, brokerUp>>
codec == <<payload, msg_b64>>
loopVars == <<cur, hist, observedAt, count, bytes_written, pbMsg, pbUpdates, pbFinished>>

\* ------------------------------------------------------------- helpers

\* One record of the sink: `written` bytes of a `len`-byte line, and the
\* number of "\n" that followed it.
Record(id, len, written, nl) == [id |-> id, len |-> len, written |-> written, nl |-> nl]

Complete(r) == r.written = r.len /\ r.nl = 1

RECURSIVE SinkBytes(_)
SinkBytes(s) ==
    IF s = <<>> THEN 0
    ELSE s[1].written + s[1].nl * NewlineWritten + SinkBytes(Tail(s))

\* format!("... {} messages recorded, data size: {:.2} MB.", count,
\* bytes_written / 1024. / 1024.), main.rs:142-146: the size is shown in
\* hundredths of a MB, rounded to nearest.
ProgressMessage(c, b) ==
    [count |-> c, mb100 |-> (b * 100 * 2 + BytesPerMB) \div (2 * BytesPerMB)]

NoMessage == [count |-> 0, mb100 |-> 0]

\* ------------------------------------------------------- envelope codec

MaxPayloadLen == 3    \* longest payload drawn from ByteValues

ByteValues == {0, 34, 77, 255}

\* The payload of the reference line at main.rs:16, without its topic prefix:
\* the bytes of "0.2.15" in double quotes, and its msg_b64.
ReferencePayload == <<34, 48, 46, 50, 46, 49, 53, 34>>
ReferenceB64 == <<"I", "j", "A", "u", "M", "i", "4", "x", "N", "S", "I", "=">>

RECURSIVE SeqsUpTo(_, _)
SeqsUpTo(S, n) ==
    IF n = 0 THEN {<<>>}
    ELSE LET shorter == SeqsUpTo(S, n - 1)
         IN  shorter \cup {Append(q, x) : q \in shorter, x \in S}

Payloads == SeqsUpTo(ByteValues, MaxPayloadLen) \cup {ReferencePayload}

\* The standard base64 alphabet and the padding character.
Alphabet ==
    <<"A", "B", "C", "D", "E", "F", "G", "H", "I", "J", "K", "L", "M",
      "N", "O", "P", "Q", "R", "S", "T", "U", "V", "W", "X", "Y", "Z",
      "a", "b", "c", "d", "e", "f", "g", "h", "i", "j", "k", "l", "m",
      "n", "o", "p", "q", "r", "s", "t", "u", "v", "w", "x", "y", "z",
      "0", "1", "2", "3", "4", "5", "6", "7", "8", "9", "+", "/">>

UrlSafeAlphabet == [i \in 1..64 |-> IF i = 63 THEN "-" ELSE IF i = 64 THEN "_" ELSE Alphabet[i]]

Pad == "="

\* Three bytes give four sextets; one or two trailing bytes give two or
\* three sextets and padding up to four characters.
RECURSIVE EncodeWith(_, _)
EncodeWith(abc, b) ==
    IF Len(b) = 0 THEN <<>>
    ELSE IF Len(b) = 1 THEN
        <<abc[b[1] \div 4 + 1], abc[(b[1] % 4) * 16 + 1], Pad, Pad>>
    ELSE IF Len(b) = 2 THEN
        <<abc[b[1] \div 4 + 1], abc[(b[1] % 4) * 16 + b[2] \div 16 + 1],
          abc[(b[2] % 16) * 4 + 1], Pad>>
    ELSE
        <<abc[b[1] \div 4 + 1], abc[(b[1] % 4) * 16 + b[2] \div 16 + 1],
          abc[(b[2] % 16) * 4 + b[3] \div 64 + 1], abc[(b[3] % 64) + 1]>>
        \o EncodeWith(abc, SubSeq(b, 4, Len(b)))

\* base64 with the URL-safe alphabet in place of the standard one.
Base64Encode_UrlSafe(b) == EncodeWith(UrlSafeAlphabet, b)

\* base64::encode(&*msg.payload), main.rs:135: standard alphabet, padded.
Base64Encode(b) == EncodeWith(Alphabet, b)

\* A standard base64 decoder, as a reader of the file would run it.
DecodeError == <<-1>>

Sextet(c) == (CHOOSE i \in 1..64 : Alphabet[i] = c) - 1

IsB64Char(c) == \E i \in 1..64 : Alphabet[i] = c

RECURSIVE DecodeGroups(_)
DecodeGroups(t) ==
    IF Len(t) = 0 THEN <<>>
    ELSE LET last == Len(t) = 4
             g == SubSeq(t, 1, 4)
         IN  IF ~(IsB64Char(g[1]) /\ IsB64Char(g[2])) THEN DecodeError
             ELSE IF last /\ g[3] = Pad /\ g[4] = Pad THEN
                 <<Sextet(g[1]) * 4 + Sextet(g[2]) \div 16>>
             ELSE IF ~IsB64Char(g[3]) THEN DecodeError
             ELSE IF last /\ g[4] = Pad THEN
                 <<Sextet(g[1]) * 4 + Sextet(g[2]) \div 16,
                   (Sextet(g[2]) % 16) * 16 + Sextet(g[3]) \div 4>>
             ELSE IF ~IsB64Char(g[4]) THEN DecodeError
             ELSE LET rest == DecodeGroups(SubSeq(t, 5, Len(t)))
                  IN  IF rest = DecodeError THEN DecodeError
                      ELSE <<Sextet(g[1]) * 4 + Sextet(g[2]) \div 16,
                             (Sextet(g[2]) % 16) * 16 + Sextet(g[3]) \div 4,
                             (Sextet(g[3]) % 4) * 64 + Sextet(g[4])>> \o rest

Base64Decode(t) == IF Len(t) % 4 # 0 THEN DecodeError ELSE DecodeGroups(t)

\* ---------------------------------------------------------------- Init
Init ==
    /\ pc = "init"
    /\ output \in OutputArgs
    /\ fs \in [Paths -> {"absent", "prior"}]
    /\ brokerUp \in BOOLEAN
    /\ handlerSet = FALSE
    /\ running = TRUE
    /\ signals = 0
    /\ sinkState = "none"
    /\ sink = <<>>
    /\ finished = 0
    /\ flushes = 0
    /\ subscribes = 0
    /\ cur = NoEvent
    /\ hist = <<>>
    /\ observedAt = -1
    /\ count = 0
    /\ bytes_written = 0
    /\ pbMsg = NoMessage
    /\ pbUpdates = 0
    /\ pbFinished = FALSE
    /\ cause = "none"
    /\ status = "live"
    /\ flagReads = 0
    /\ logged = {}
    /\ payload = <<>>
    /\ msg_b64 = <<>>

\* ------------------------------------------------------------- start-up

\* main.rs:52-68: read the options, normalize the output path, install the
\* logger; `.init()?` returns the error to the caller.
InitLogger ==
    /\ pc = "init"
    /\ output' = set_extension(output)
    /\ \E ok \in BOOLEAN :
         IF ok THEN /\ pc' = "handler"
                    /\ UNCHANGED <<cause, status>>
               ELSE /\ pc' = "drop"
                    /\ cause' = "logger"
                    /\ status' = "error"
    /\ UNCHANGED <<fs, brokerUp, codec, flagReads, logged, handlerSet, running, signals, sinkState, sink,
                   finished, flushes, subscribes, loopVars>>

\* main.rs:70-78: create the flag and install the Ctrl-C handler;
\* `.expect(..)` panics when the handler cannot be installed.
SetHandler ==
    /\ pc = "handler"
    /\ running' = TRUE
    /\ \E ok \in BOOLEAN :
         IF ok THEN /\ handlerSet' = TRUE
                    /\ pc' = "open"
                    /\ UNCHANGED <<cause, status>>
               ELSE /\ handlerSet' = FALSE
                    /\ pc' = "drop"
                    /\ cause' = "handler"
                    /\ status' = "panic"
    /\ UNCHANGED <<env, codec, flagReads, logged, signals, sinkState, sink, finished, flushes, subscribes, loopVars>>

\* OpenSink with create(true).truncate(true) in place of create_new(true):
\* an existing file is overwritten.
OpenSink_Truncate ==
    /\ pc = "open"
    /\ \E r \in {"ok", "open_failed", "encoder_failed"} :
         /\ fs' = IF r = "open_failed" THEN fs
                  ELSE [fs EXCEPT ![output] = "capture"]
         /\ sinkState' = IF r = "ok" THEN "open" ELSE "none"
         /\ pc' = IF r = "ok" THEN "connect" ELSE "drop"
         /\ cause' = IF r = "ok" THEN cause ELSE "open"
         /\ status' = IF r = "ok" THEN status ELSE "error"
    /\ UNCHANGED <<output, brokerUp, codec, flagReads, logged, handlerSet, running, signals, sink, finished,
                   flushes, subscribes, loopVars>>

\* main.rs:80-87: create the output file exclusively (create_new), wrap it
\* in the 16 MB BufWriter and in the auto-finishing zstd encoder.  Both `?`
\* return the error to the caller; when Encoder::new fails the new, empty
\* file stays behind.
OpenSink ==
    /\ pc = "open"
    /\ \/ /\ fs[output] # "absent"
          /\ pc' = "drop"
          /\ cause' = "exists"
          /\ status' = "error"
          /\ UNCHANGED <<fs, sinkState>>
       \/ /\ fs[output] = "absent"
          /\ \E r \in {"ok", "open_failed", "encoder_failed"} :
               /\ fs' = IF r = "open_failed" THEN fs
                        ELSE [fs EXCEPT ![output] = "capture"]
               /\ sinkState' = IF r = "ok" THEN "open" ELSE "none"
               /\ pc' = IF r = "ok" THEN "connect" ELSE "drop"
               /\ cause' = IF r = "ok" THEN cause ELSE "open"
               /\ status' = IF r = "ok" THEN status ELSE "error"
    /\ UNCHANGED <<output, brokerUp, codec, flagReads, logged, handlerSet, running, signals, sink, finished,
                   flushes, subscribes, loopVars>>

\* Connect as a fallible call: an unreachable broker ends the run here.
Connect_Fallible ==
    /\ pc = "connect"
    /\ IF brokerUp THEN /\ pc' = "subscribe"
                        /\ UNCHANGED <<cause, status>>
                   ELSE /\ pc' = "drop"
                        /\ cause' = "connect"
                        /\ status' = "error"
    /\ UNCHANGED <<env, codec, flagReads, logged, handlerSet, running, signals, sinkState, sink, finished,
                   flushes, subscribes, loopVars>>

\* main.rs:89-91: MqttOptions::new, set_keep_alive, Client::new.  The result
\* is bound by the irrefutable pattern (client, notifications): there is no
\* error to handle and nothing is sent to the broker here.
Connect ==
    /\ pc = "connect"
    /\ pc' = "subscribe"
    /\ UNCHANGED <<env, codec, flagReads, logged, handlerSet, running, signals, sinkState, sink, finished,
                   flushes, subscribes, loopVars, cause, status>>

\* main.rs:93-115: the start-up subscription (`.unwrap()` panics on Err),
\* the banner, the spinner and the two counters.
SubscribeAll ==
    /\ pc = "subscribe"
    /\ subscribes' = subscribes + 1
    /\ \E ok \in BOOLEAN :
         IF ok THEN /\ pc' = "wait"
                    /\ UNCHANGED <<cause, status>>
               ELSE /\ pc' = "drop"
                    /\ cause' = "subscribe"
                    /\ status' = "panic"
    /\ count' = 0
    /\ bytes_written' = 0
    /\ pbMsg' = NoMessage
    /\ UNCHANGED <<env, codec, flagReads, logged, handlerSet, running, signals, sinkState, sink, finished,
                   flushes, cur, hist, observedAt, pbUpdates, pbFinished>>

\* --------------------------------------------------------- capture loop

\* What the Connection iterator can yield: packets only come from a
\* reachable broker; an unreachable one shows as Err(ConnectionError).
Yieldable == IF brokerUp THEN Events ELSE {ErrEvent}

\* main.rs:117: notifications.iter().next() -- the blocking wait.  It
\* returns Some(item), or None when the stream has ended.
NextEvent ==
    /\ pc = "wait"
    /\ \/ /\ Len(hist) < MaxEvents
          /\ \E e \in Yieldable :
               /\ cur' = e
               /\ hist' = Append(hist, e)
          /\ pc' = "check"
          /\ UNCHANGED cause
       \/ /\ cur' = NoEvent
          /\ pc' = "flush"
          /\ cause' = "end"
          /\ UNCHANGED hist
    /\ UNCHANGED <<env, codec, flagReads, logged, handlerSet, running, signals, sinkState, sink, finished,
                   flushes, subscribes, observedAt, count, bytes_written, pbMsg,
                   pbUpdates, pbFinished, status>>

\* CheckFlag with the read of the flag moved into the Publish arm: other
\* items go to the match without a read.
CheckFlag_PublishOnly ==
    /\ pc = "check"
    /\ IF cur.kind # "Publish"
       THEN /\ pc' = "match"
            /\ logged' = logged \cup {"trace"}
            /\ UNCHANGED <<flagReads, pbFinished, observedAt, cause>>
       ELSE /\ flagReads' = flagReads + 1
            /\ IF ~running
               THEN /\ pbFinished' = TRUE
                    /\ observedAt' = Len(hist)
                    /\ pc' = "flush"
                    /\ cause' = "shutdown"
                    /\ UNCHANGED logged
               ELSE /\ pc' = "match"
                    /\ logged' = logged \cup {"trace"}
                    /\ UNCHANGED <<pbFinished, observedAt, cause>>
    /\ UNCHANGED <<env, codec, handlerSet, running, signals, sinkState, sink, finished,
                   flushes, subscribes, cur, hist, count, bytes_written, pbMsg,
                   pbUpdates, status>>

\* main.rs:118-123: the one read of the flag in an iteration, then the
\* trace! of the notification.
CheckFlag ==
    /\ pc = "check"
    /\ flagReads' = flagReads + 1
    /\ IF ~running
       THEN /\ pbFinished' = TRUE
            /\ observedAt' = Len(hist)
            /\ pc' = "flush"
            /\ cause' = "shutdown"
            /\ UNCHANGED logged
       ELSE /\ pc' = "match"
            /\ logged' = logged \cup {"trace"}
            /\ UNCHANGED <<pbFinished, observedAt, cause>>
    /\ UNCHANGED <<env, codec, handlerSet, running, signals, sinkState, sink, finished,
                   flushes, subscribes, cur, hist, count, bytes_written, pbMsg,
                   pbUpdates, status>>

\* HandlePublish with an else branch that reports the dropped record.
HandlePublish_Warn ==
    /\ pc = "match"
    /\ cur.kind = "Publish"
    /\ IF cur.ser.ok
       THEN /\ count' = count + 1
            /\ bytes_written' = bytes_written + cur.ser.len + NewlineEstimate
            /\ pbMsg' = ProgressMessage(count', bytes_written')
            /\ pbUpdates' = pbUpdates + 1
            /\ pc' = "append"
            /\ UNCHANGED logged
       ELSE /\ pc' = "wait"
            /\ logged' = logged \cup {"warn"}
            /\ UNCHANGED <<count, bytes_written, pbMsg, pbUpdates>>
    /\ UNCHANGED <<env, codec, flagReads, handlerSet, running, signals, sinkState, sink,
                   finished, flushes, subscribes, cur, hist, observedAt, pbFinished,
                   cause, status>>

\* HandlePublish with the counters advanced outside the `if let Ok(..)`.
HandlePublish_CountAlways ==
    /\ pc = "match"
    /\ cur.kind = "Publish"
    /\ count' = count + 1
    /\ bytes_written' = bytes_written + cur.ser.len + NewlineEstimate
    /\ pbMsg' = ProgressMessage(count', bytes_written')
    /\ pbUpdates' = pbUpdates + 1
    /\ pc' = IF cur.ser.ok THEN "append" ELSE "wait"
    /\ UNCHANGED <<env, codec, flagReads, logged, handlerSet, running, signals, sinkState, sink, finished,
                   flushes, subscribes, cur, hist, observedAt, pbFinished, cause, status>>

\* main.rs:126-146: build the MqttMessage and serialize it; on Ok the
\* counters are advanced and the spinner message is set, and the write
\* follows; on Err the arm does nothing.
HandlePublish ==
    /\ pc = "match"
    /\ cur.kind = "Publish"
    /\ IF cur.ser.ok
       THEN /\ count' = count + 1
            /\ bytes_written' = bytes_written + cur.ser.len + NewlineEstimate
            /\ pbMsg' = ProgressMessage(count', bytes_written')
            /\ pbUpdates' = pbUpdates + 1
            /\ pc' = "append"
       ELSE /\ pc' = "wait"
            /\ UNCHANGED <<count, bytes_written, pbMsg, pbUpdates>>
    /\ UNCHANGED <<env, codec, flagReads, logged, handlerSet, running, signals, sinkState, sink, finished,
                   flushes, subscribes, cur, hist, observedAt, pbFinished, cause, status>>

\* AppendLine with the writeln! statement duplicated.
AppendLine_Twice ==
    /\ pc = "append"
    /\ \/ /\ sink' = sink \o << Record(cur.id, cur.ser.len, cur.ser.len, 1),
                               Record(cur.id, cur.ser.len, cur.ser.len, 1) >>
          /\ pc' = "wait"
          /\ UNCHANGED <<cause, status>>
       \/ /\ \E w \in 0..cur.ser.len :
               sink' = IF w = 0 THEN sink
                       ELSE Append(sink, Record(cur.id, cur.ser.len, w, 0))
          /\ pc' = "drop"
          /\ cause' = "append"
          /\ status' = "panic"
    /\ UNCHANGED <<env, codec, flagReads, logged, handlerSet, running, signals, sinkState,
                   finished, flushes, subscribes, loopVars>>

\* AppendLine with the result of writeln! discarded instead of unwrapped.
AppendLine_Ignore ==
    /\ pc = "append"
    /\ \/ sink' = Append(sink, Record(cur.id, cur.ser.len, cur.ser.len, 1))
       \/ \E w \in 0..cur.ser.len :
            sink' = IF w = 0 THEN sink
                    ELSE Append(sink, Record(cur.id, cur.ser.len, w, 0))
    /\ pc' = "wait"
    /\ UNCHANGED <<env, codec, flagReads, logged, handlerSet, running, signals, sinkState, finished, flushes,
                   subscribes, loopVars, cause, status>>

\* main.rs:147: writeln!(log_file, "{}", serialized).unwrap().  write_fmt
\* hands the encoder the line and then "\n" in separate write_all calls; an
\* Err from either one panics, with w bytes of the line (and no "\n")
\* already taken by the encoder.
AppendLine ==
    /\ pc = "append"
    /\ \/ /\ sink' = Append(sink, Record(cur.id, cur.ser.len, cur.ser.len, 1))
          /\ pc' = "wait"
          /\ UNCHANGED <<cause, status>>
       \/ /\ \E w \in 0..cur.ser.len :
               sink' = IF w = 0 THEN sink
                       ELSE Append(sink, Record(cur.id, cur.ser.len, w, 0))
          /\ pc' = "drop"
          /\ cause' = "append"
          /\ status' = "panic"
    /\ UNCHANGED <<env, codec, flagReads, logged, handlerSet, running, signals, sinkState, finished, flushes,
                   subscribes, loopVars>>

\* HandleDisconnect that only logs.
HandleDisconnect_LogOnly ==
    /\ pc = "match"
    /\ cur.kind = "Disconnect"
    /\ logged' = logged \cup {"debug"}
    /\ pc' = "wait"
    /\ UNCHANGED <<env, codec, flagReads, handlerSet, running, signals, sinkState, sink, finished,
                   flushes, subscribes, loopVars, cause, status>>

\* main.rs:150-153: log and subscribe again; `.unwrap()` panics on Err.
HandleDisconnect ==
    /\ pc = "match"
    /\ cur.kind = "Disconnect"
    /\ logged' = logged \cup {"debug"}
    /\ subscribes' = subscribes + 1
    /\ \E ok \in BOOLEAN :
         IF ok THEN /\ pc' = "wait"
                    /\ UNCHANGED <<cause, status>>
               ELSE /\ pc' = "drop"
                    /\ cause' = "resubscribe"
                    /\ status' = "panic"
    /\ UNCHANGED <<env, codec, flagReads, handlerSet, running, signals, sinkState, sink, finished,
                   flushes, loopVars>>

\* HandleOther that treats a transport error like a disconnect and
\* subscribes again.
HandleOther_Resubscribe ==
    /\ pc = "match"
    /\ cur.kind \in {"Other", "Err"}
    /\ subscribes' = IF cur.kind = "Err" THEN subscribes + 1 ELSE subscribes
    /\ pc' = "wait"
    /\ UNCHANGED <<env, codec, flagReads, logged, handlerSet, running, signals, sinkState,
                   sink, finished, flushes, loopVars, cause, status>>

\* main.rs:154: `_ => ()` -- every other Ok(event) and every Err(_).
HandleOther ==
    /\ pc = "match"
    /\ cur.kind \in {"Other", "Err"}
    /\ pc' = "wait"
    /\ UNCHANGED <<env, codec, flagReads, logged, handlerSet, running, signals, sinkState, sink, finished,
                   flushes, subscribes, loopVars, cause, status>>

\* ------------------------------------------------------------ the exit

\* main.rs:158-160: log_file.flush()?; Ok(()).
Flush ==
    /\ pc = "flush"
    /\ flushes' = flushes + 1
    /\ \E ok \in BOOLEAN :
         IF ok THEN /\ status' = "ok"
                    /\ UNCHANGED cause
               ELSE /\ status' = "error"
                    /\ cause' = "flush"
    /\ pc' = "drop"
    /\ UNCHANGED <<env, codec, flagReads, logged, handlerSet, running, signals, sinkState, sink, finished,
                   subscribes, loopVars>>

\* Drop where a panic aborts instead of unwinding: no destructor runs.
Drop_AbortOnPanic ==
    /\ pc = "drop"
    /\ finished' = IF sinkState = "open" /\ status # "panic" THEN finished + 1 ELSE finished
    /\ sinkState' = IF sinkState = "open" /\ status # "panic" THEN "finished" ELSE sinkState
    /\ pc' = "exited"
    /\ UNCHANGED <<env, codec, flagReads, logged, handlerSet, running, signals, sink, flushes, subscribes,
                   loopVars, cause, status>>

\* main.rs:87 and 161: control leaves main (return or unwinding panic) and
\* the locals are dropped; dropping the AutoFinishEncoder finishes the zstd
\* frame, once.
Drop ==
    /\ pc = "drop"
    /\ finished' = IF sinkState = "open" THEN finished + 1 ELSE finished
    /\ sinkState' = IF sinkState = "open" THEN "finished" ELSE sinkState
    /\ pc' = "exited"
    /\ UNCHANGED <<env, codec, flagReads, logged, handlerSet, running, signals, sink, flushes, subscribes,
                   loopVars, cause, status>>

\* ------------------------------------------------------ Ctrl-C handler

\* CtrlC whose handler flips the flag instead of storing false.
CtrlC_Toggle ==
    /\ handlerSet
    /\ pc # "exited"
    /\ signals < MaxSignals
    /\ running' = ~running
    /\ logged' = logged \cup {"info"}
    /\ signals' = signals + 1
    /\ UNCHANGED <<pc, env, codec, flagReads, handlerSet, sinkState, sink, finished, flushes,
                   subscribes, loopVars, cause, status>>

\* CtrlC whose handler also cancels a wait in progress.
CtrlC_Interrupt ==
    /\ handlerSet
    /\ pc # "exited"
    /\ signals < MaxSignals
    /\ running' = FALSE
    /\ logged' = logged \cup {"info"}
    /\ signals' = signals + 1
    /\ IF pc = "wait" THEN pc' = "flush" /\ cause' = "shutdown"
                      ELSE UNCHANGED <<pc, cause>>
    /\ UNCHANGED <<env, codec, flagReads, handlerSet, sinkState, sink, finished, flushes,
                   subscribes, loopVars, status>>

\* main.rs:74-77: the closure given to ctrlc::set_handler: the store and
\* the info! line.
CtrlC ==
    /\ handlerSet
    /\ pc # "exited"
    /\ signals < MaxSignals
    /\ running' = FALSE
    /\ logged' = logged \cup {"info"}
    /\ signals' = signals + 1
    /\ UNCHANGED <<pc, env, codec, flagReads, handlerSet, sinkState, sink, finished, flushes,
                   subscribes, loopVars, cause, status>>

Next ==
    \/ InitLogger
    \/ SetHandler
    \/ OpenSink
    \/ Connect
    \/ SubscribeAll
    \/ NextEvent
    \/ CheckFlag
    \/ HandlePublish
    \/ AppendLine
    \/ HandleDisconnect
    \/ HandleOther
    \/ Flush
    \/ Drop
    \/ CtrlC

Spec == Init /\ [][Next]_vars

\* ---------------------------------------- the codec on its own (C12)

\* A publish with an arbitrary bounded payload has arrived.
InitCodec ==
    /\ pc = "build"
    /\ payload \in Payloads
    /\ msg_b64 = <<>>
    /\ output = set_extension(<<"out">>)
    /\ fs = [p \in Paths |-> "capture"]
    /\ brokerUp = TRUE
    /\ handlerSet = TRUE
    /\ running = TRUE
    /\ signals = 0
    /\ sinkState = "open"
    /\ sink = <<>>
    /\ finished = 0
    /\ flushes = 0
    /\ subscribes = 1
    /\ cur = NoEvent
    /\ hist = <<>>
    /\ observedAt = -1
    /\ count = 0
    /\ bytes_written = 0
    /\ pbMsg = NoMessage
    /\ pbUpdates = 0
    /\ pbFinished = FALSE
    /\ cause = "none"
    /\ status = "live"
    /\ flagReads = 0
    /\ logged = {}

\* main.rs:127-136: the msg_b64 field of the MqttMessage.
BuildMessage ==
    /\ pc = "build"
    /\ msg_b64' = Base64Encode(payload)
    /\ pc' = "built"
    /\ UNCHANGED <<env, payload, handlerSet, running, signals, sinkState, sink,
                   finished, flushes, subscribes, loopVars, cause, status,
                   flagReads, logged>>

NextCodec == BuildMessage

SpecCodec == InitCodec /\ [][NextCodec]_vars

\* The steps the main thread takes without waiting for the session: once
\* enabled, the thread takes them.  The return of the blocking wait
\* (NextEvent) and the arrival of a signal (CtrlC) are up to the environment.
MainSteps ==
    \/ InitLogger \/ SetHandler \/ OpenSink \/ Connect \/ SubscribeAll
    \/ CheckFlag \/ HandlePublish \/ AppendLine \/ HandleDisconnect
    \/ HandleOther \/ Flush \/ Drop

FairSpec == Spec /\ WF_vars(MainSteps)

TypeOK ==
    /\ pc \in {"init", "handler", "open", "connect", "subscribe", "wait", "check",
               "match", "append", "flush", "drop", "exited"}
    /\ output \in OutputArgs \cup Paths
    /\ fs \in [Paths -> {"absent", "prior", "capture"}]
    /\ running \in BOOLEAN
    /\ cur \in Events \cup {NoEvent}
    /\ count \in 0..MaxEvents
    /\ sinkState \in {"none", "open", "finished"}
    /\ finished \in 0..1
    /\ status \in {"live", "ok", "error", "panic"}

\* =============================================================== claims

NormalizedOutput == IF pc = "init" THEN set_extension(output) ELSE output

CompleteRecords(s) == Len(SelectSeq(s, Complete))

InLoop == pc \in {"wait", "check", "match", "append"}

\* The event sequence [Publish A, Disconnected, Publish B], both serializable.
IsScenario(h) ==
    /\ Len(h) = 3
    /\ h[1].kind = "Publish" /\ h[1].ser.ok
    /\ h[2] = DisconnectEvent
    /\ h[3].kind = "Publish" /\ h[3].ser.ok

FullRecord(e) == Record(e.id, e.ser.len, e.ser.len, 1)

\* C1 -- graceful shutdown: in a run that ended because the loop observed the
\* flag, the sink was finalized exactly once, the message counter and the
\* byte counter equal the number and the bytes of the records appended, and
\* nothing was consumed or appended after the flag was observed.
C1_GracefulShutdown ==
    (pc = "exited" /\ observedAt >= 0) =>
        /\ finished = 1
        /\ Len(hist) = observedAt
        /\ count = CompleteRecords(sink)
        /\ Len(sink) = CompleteRecords(sink)
        /\ bytes_written = SinkBytes(sink)

\* C2 -- once the sink has been opened the encoder is finished exactly once
\* on every exit path, never zero times and never twice; it is not finished
\* while the run is still going.
C2_FinalizeOnce ==
    /\ finished <= 1
    /\ sinkState = "none" => finished = 0
    /\ sinkState = "open" => finished = 0 /\ pc # "exited"
    /\ sinkState = "finished" => finished = 1 /\ pc = "exited"
    /\ (pc = "exited" /\ cause \in {"end", "shutdown", "append", "resubscribe",
                                   "subscribe", "flush"}) => finished = 1

C2_Witness ==
    pc = "exited" /\ cause = "resubscribe" /\ status = "panic" /\ finished = 1

C4_CompleteRecordsOnly ==
    /\ \A i \in 1..Len(sink) : Complete(sink[i])
    /\ pc = "append" => finished = 0

\* C5 -- between iterations and at termination the message counter equals
\* the number of records appended to the sink.
C5_MessageCounter ==
    pc \in {"wait", "flush", "drop", "exited"} => count = CompleteRecords(sink)

\* C6 -- after N appended records the byte counter equals the bytes handed
\* to the sink: each line plus the terminator written after it.
C6_ByteCounter ==
    (pc = "wait" /\ Len(sink) = CompleteRecords(sink)) => bytes_written = SinkBytes(sink)

\* C7 -- exclusivity: when a file exists at the normalized output path, the
\* file system is never changed, opening the sink fails with an error, and
\* no subscription is issued, no event consumed and no record appended.
C7_Exclusivity ==
    [][fs[NormalizedOutput] = "prior" =>
         /\ fs' = fs
         /\ sinkState' = "none"
         /\ subscribes' = 0 /\ hist' = <<>> /\ sink' = <<>>
         /\ pc' \in {"init", "handler", "open", "drop", "exited"}
         /\ (pc = "open" /\ pc' # "open") => (pc' = "drop" /\ status' = "error")]_vars

C7_Witness ==
    pc = "exited" /\ cause = "exists" /\ fs[output] = "prior" /\ status = "error"

C9_AppendFatal ==
    /\ [][/\ (pc = "append" /\ pc' # "append" /\ sink' # Append(sink, FullRecord(cur))) =>
               (pc' = "drop" /\ status' = "panic" /\ cause' = "append")
          /\ cause = "append" =>
               /\ sink' = sink /\ hist' = hist /\ count' = count
               /\ cause' = "append" /\ status' = "panic"
               /\ pc' \in {"drop", "exited"}]_vars
    /\ []((cause = "append" /\ pc = "exited") => finished = 1)

C9_Witness == cause = "append" /\ pc = "exited" /\ finished = 1 /\ status = "panic"

\* C10 -- a Publish whose serialization fails is dropped: the sink, both
\* counters and the progress message are unchanged and the loop goes back to
\* waiting for the next event.
C10_SerializationFailureDropped ==
    [][(pc = "match" /\ cur.kind = "Publish" /\ ~cur.ser.ok /\ pc' # pc) =>
         /\ sink' = sink
         /\ count' = count /\ bytes_written' = bytes_written
         /\ pbMsg' = pbMsg /\ pbUpdates' = pbUpdates
         /\ pc' = "wait" /\ status' = "live"]_vars

C10_Witness ==
    /\ pc = "check" /\ Len(hist) = 2
    /\ hist[1].kind = "Publish" /\ ~hist[1].ser.ok
    /\ count = 0 /\ sink = <<>>

\* C11 -- once capture has begun, a run ends as a failure only through a
\* failed write or flush of the sink; no failure of the bus (transport
\* error, disconnect, failed re-subscription) ends it.
C11_OnlySinkFailuresFatal ==
    (status \in {"error", "panic"} /\ subscribes >= 1 /\ cause # "subscribe") =>
        cause \in {"append", "flush"}

\* C12 -- payload round trip: decoding the msg_b64 built for a payload with
\* standard base64 gives back exactly the payload (and the reference payload
\* gives the reference text).
C12_PayloadRoundTrip ==
    pc = "built" =>
        /\ Base64Decode(msg_b64) = payload
        /\ payload = ReferencePayload => msg_b64 = ReferenceB64

C12_Witness ==
    /\ pc = "built" /\ payload = <<255, 0>>
    /\ msg_b64 = <<"/", "w", "A", "=">>

C14_CooperativeCancellation ==
    /\ [][/\ (running /\ ~running') => (pc' = pc /\ hist' = hist /\ cause' = cause)
          /\ (pc = "wait" /\ pc' # "wait") =>
               \/ pc' = "check" /\ Len(hist') = Len(hist) + 1
               \/ pc' = "flush" /\ cause' = "end"
          /\ (~running /\ pc = "check" /\ pc' # "check") =>
               (pc' = "flush" /\ cause' = "shutdown")]_vars
    /\ ((~running /\ pc \in {"check", "flush"}) ~>
            (pc = "exited" /\ sinkState = "finished" /\ finished = 1))

C14_Witness ==
    /\ pc = "exited" /\ cause = "shutdown" /\ ~running
    /\ observedAt = 2 /\ finished = 1 /\ status = "ok"

\* C15 -- progress ordering: in every reachable state the message count last
\* given to the progress display does not exceed the number of records
\* appended to the sink.
C15_ProgressAfterAppend == pbMsg.count <= CompleteRecords(sink)

\* C16 -- the flag is single-writer and write-once: it changes only in a
\* step of the Ctrl-C handler, only from running to shutdown-requested;
\* every run of the handler leaves it at shutdown-requested; once there it
\* stays there; a read by the loop does not change it.
C16_FlagWriteOnce ==
    [][/\ running' # running =>
            (running /\ ~running' /\ handlerSet /\ signals' = signals + 1 /\ pc' = pc)
       /\ signals' # signals => ~running'
       /\ ~running => ~running'
       /\ flagReads' # flagReads => running' = running]_vars

C16_Witness == signals = 2 /\ ~running /\ observedAt >= 1 /\ flagReads >= 2

\* C17 -- processing an item that is not a Publish leaves both counters, the
\* progress message and the sink unchanged: a Disconnect makes exactly one
\* subscribe call, and any other item or a transport error changes nothing
\* and the loop goes back to the wait.
C17_NonPublishFrame ==
    [][(pc = "match" /\ cur.kind # "Publish" /\ pc' # pc) =>
         /\ count' = count /\ bytes_written' = bytes_written
         /\ sink' = sink /\ pbMsg' = pbMsg /\ pbUpdates' = pbUpdates
         /\ cur.kind = "Disconnect" => subscribes' = subscribes + 1
         /\ cur.kind \in {"Other", "Err"} =>
              /\ pc' = "wait"
              /\ UNCHANGED <<subscribes, logged, cause, status, running, hist,
                             sinkState, finished, flushes, fs>>]_vars

C17_Witness ==
    /\ pc = "wait" /\ Len(hist) = 3
    /\ hist[1].kind = "Publish" /\ hist[2] = DisconnectEvent /\ hist[3] = ErrEvent
    /\ count = 1 /\ Len(sink) = 1 /\ subscribes = 2

IsOkPublish(e) == e.kind = "Publish" /\ e.ser.ok

\* The records of the serializable Publish items of h, in order.
RecordsOf(h) ==
    LET sel == SelectSeq(h, IsOkPublish)
    IN  [i \in 1..Len(sel) |-> FullRecord(sel[i])]

\* The items whose iteration read the flag as not raised.
PassedCheck ==
    IF observedAt >= 0 THEN SubSeq(hist, 1, observedAt - 1) ELSE hist

\* C18 (as stated) -- at finalize the complete records of the sink are exactly
\* those of the serializable Publish items returned in iterations whose
\* check found the flag not raised, once each and in order.
C18_CaptureExact == finished = 1 => SelectSeq(sink, Complete) = RecordsOf(PassedCheck)

\* C18 (amended) -- the same, for the items whose write succeeded: when no
\* write failed the sink is exactly those records; a failed write ends the
\* run, and then the complete records are those of the items before the
\* one being written, followed by at most one unterminated fragment of it.
C18_CaptureExactUnlessWriteFails ==
    finished = 1 =>
        IF cause = "append"
        THEN LET done == SelectSeq(sink, Complete)
             IN  /\ done = RecordsOf(SubSeq(hist, 1, Len(hist) - 1))
                 /\ IsOkPublish(hist[Len(hist)])
                 /\ Len(sink) <= Len(done) + 1
                 /\ Len(sink) = Len(done) + 1 =>
                      /\ SubSeq(sink, 1, Len(done)) = done
                      /\ sink[Len(sink)].id = hist[Len(hist)].id
                      /\ sink[Len(sink)].nl = 0
        ELSE sink = RecordsOf(PassedCheck)

C18_Witness ==
    /\ finished = 1 /\ observedAt = 3 /\ Len(hist) = 3
    /\ IsOkPublish(hist[1]) /\ hist[1].id = "B"
    /\ hist[2].kind = "Publish" /\ ~hist[2].ser.ok
    /\ IsOkPublish(hist[3])
    /\ Len(sink) = 1 /\ sink[1].id = "B"

\* C19 (as stated) -- handling a Publish that cannot be serialized reports a
\* warning.
C19_WarningOnDrop ==
    [][(pc = "match" /\ cur.kind = "Publish" /\ ~cur.ser.ok /\ pc' # pc) =>
         "warn" \in logged']_vars

\* C19 (amended) -- a Publish that cannot be serialized is dropped without
\* any report: handling it calls no log macro, no warning is ever logged in
\* a run, and the loop goes back to the wait.
C19_SilentDrop ==
    /\ [][(pc = "match" /\ cur.kind = "Publish" /\ ~cur.ser.ok /\ pc' # pc) =>
            (logged' = logged /\ pc' = "wait" /\ status' = "live")]_vars
    /\ []("warn" \notin logged)

C19_Witness ==
    /\ pc = "wait" /\ Len(hist) = 1
    /\ hist[1].kind = "Publish" /\ ~hist[1].ser.ok
    /\ logged = {"trace"} /\ pbUpdates = 0

====
